---- MODULE Spec2Model ----
(***************************************************************************)
(* Connection and call-dispatch engine of the Mirai adapter                *)
(* (src/nonebot/adapters/mirai/adapter.py): the reconnect supervisor       *)
(* Adapter.ws, the receive loop Adapter._loop, the response validator      *)
(* Adapter.validate_response and the call router Adapter.call /            *)
(* _call_ws / _call_http, under asyncio's cooperative scheduling: one      *)
(* action is the code a task runs between two suspension points.           *)
(***************************************************************************)
EXTENDS Integers, Sequences, FiniteSets, TLC

----------------------------------------------------------------------------
(* Bounds of the exploration                                               *)

MaxAttempts == 3      \* connection attempts one supervisor may start
NumFutures == 2       \* addresses at which a Future object can be allocated
NumCalls == 2         \* call() invocations that can be in progress at once
MaxHandlers == 1      \* handle_event tasks that can be unfinished at once

----------------------------------------------------------------------------
(* Configuration                                                           *)

Accounts == {1, 2}
Sups == {1, 2}            \* indices into mirai_config.mirai_clients
Calls == 1..NumCalls
Sessions == {"s1", "s2"}

NoAccount == 0            \* an unused slot of mirai_clients
NoWs == 0                 \* wss has no entry for the account
NoKey == ""               \* session_keys has no (truthy) entry for the account
NoCode == -1              \* the dict has no "code" key
NoSync == "<absent>"      \* the frame has no "syncId" key
NoFut == 0                \* the call created no Future

----------------------------------------------------------------------------
(* JSON values.  A dict is a record of the keys the engine looks at; a key *)
(* that is absent holds the matching No... value.                          *)

NoneV == [kind |-> "none"]

Dict(code, session, type, qq, msgId, data) ==
    [kind |-> "dict", code |-> code, session |-> session, type |-> type,
     qq |-> qq, msgId |-> msgId, data |-> data]

\* the flat dicts a backend puts under "data"
OkResult == Dict(0, "", "", 0, 456, NoneV)               \* {"code":0,"msgId":456}
ErrInvalidSession == Dict(3, "", "", 0, 0, NoneV)        \* {"code":3,"msg":..}
ErrUnmapped == Dict(99, "", "", 0, 0, NoneV)             \* {"code":99}
SessionAnn(k) == Dict(NoCode, k, "", 0, 0, NoneV)        \* {"session":k}
ErrWithSession == Dict(3, "s1", "", 0, 0, NoneV)         \* {"code":3,"session":"s1"}
KnownEvent == Dict(NoCode, "", "BotOnlineEvent", 123, 0, NoneV)
KnownEventBad == Dict(NoCode, "", "BotOnlineEvent", 0, 0, NoneV)   \* no "qq"
FutureEvent == Dict(NoCode, "", "SomeFutureEvent", 0, 0, NoneV)
SessionEvent == Dict(NoCode, "s1", "BotOnlineEvent", 123, 0, NoneV)
ErrEvent == Dict(3, "", "BotOnlineEvent", 123, 0, NoneV)
Plain == Dict(NoCode, "", "", 0, 0, NoneV)               \* {}
Wrapped == Dict(0, "", "", 0, 0, Dict(NoCode, "", "", 0, 456, NoneV))
                                                 \* {"code":0,"data":{"msgId":456}}

\* a bare number
Num(n) == [kind |-> "num", n |-> n]

HasKey(d, k) ==
    /\ d.kind = "dict"
    /\ CASE k = "code" -> d.code # NoCode
         [] k = "session" -> d.session # ""
         [] k = "type" -> d.type # ""
         [] k = "qq" -> d.qq # 0
         [] k = "msgId" -> d.msgId # 0
         [] k = "data" -> d.data # NoneV

\* body.pop("type")
PopType(d) == [d EXCEPT !.type = ""]

----------------------------------------------------------------------------
(* exception.py                                                            *)

MappedCodes == {1, 2, 3, 4, 5, 6, 10, 20, 30, 400, 500}

code_exceptions_mapping ==
    [c \in MappedCodes |->
        CASE c = 1 -> "InvalidVerifyKey"
          [] c = 2 -> "AccountNotFound"
          [] c = 3 -> "InvalidSession"
          [] c = 4 -> "UnVerifiedSession"
          [] c = 5 -> "UnknownTarget"
          [] c = 6 -> "FileNotFound"
          [] c = 10 -> "PermissionDenied"
          [] c = 20 -> "AccountMuted"
          [] c = 30 -> "TooLongMessage"
          [] c = 400 -> "InvalidOperation"
          [] c = 500 -> "RemoteException"]

\* an exception object: class, status_code, content
Exc(cls, code, content) ==
    [kind |-> "exc", cls |-> cls, code |-> code, content |-> content]

\* str(data), kept as the value it was rendered from
StrOf(v) == [kind |-> "str", of |-> v]

IsExc(v) == v.kind = "exc"

----------------------------------------------------------------------------
(* Adapter.validate_response.  The result says whether the function        *)
(* returned (val) or raised (exc).                                         *)

Returned(v) == [how |-> "return", val |-> v]
Raised(e) == [how |-> "raise", val |-> e]

\* data.get("code") if isinstance(data, dict) else data
IntCodeOf(data) ==
    CASE data.kind = "dict" -> data.code
      [] data.kind = "num" -> data.n
      [] OTHER -> NoCode

\* a validator that builds the generic error without the content
validate_response_NoContent(data, raising) ==
    LET int_code == IntCodeOf(data)
    IN  IF int_code = NoCode \/ int_code = 200 \/ int_code = 0
        THEN IF data.kind = "dict"
             THEN Returned(IF HasKey(data, "data") THEN data.data ELSE data)
             ELSE Raised(Exc("AttributeError", NoCode, NoneV))
        ELSE LET exc == IF int_code \in MappedCodes
                        THEN Exc(code_exceptions_mapping[int_code], int_code, StrOf(data))
                        ELSE Exc("RemoteException", int_code, NoneV)
             IN  IF raising THEN Raised(exc) ELSE Returned(exc)

\* a validator that drops the status code from a success payload
validate_response_StripCode(data, raising) ==
    LET int_code == IntCodeOf(data)
    IN  IF int_code = NoCode \/ int_code = 200 \/ int_code = 0
        THEN IF data.kind = "dict"
             THEN Returned(IF HasKey(data, "data") THEN data.data
                           ELSE [data EXCEPT !.code = NoCode])
             ELSE Raised(Exc("AttributeError", NoCode, NoneV))
        ELSE LET exc == IF int_code \in MappedCodes
                        THEN Exc(code_exceptions_mapping[int_code], int_code, StrOf(data))
                        ELSE Exc("RemoteException", int_code, StrOf(data))
             IN  IF raising THEN Raised(exc) ELSE Returned(exc)

validate_response(data, raising) ==
    LET int_code == IntCodeOf(data)
    IN  IF int_code = NoCode \/ int_code = 200 \/ int_code = 0
        THEN IF data.kind = "dict"
             THEN Returned(IF HasKey(data, "data") THEN data.data ELSE data)
             ELSE Raised(Exc("AttributeError", NoCode, NoneV))
        ELSE LET exc == IF int_code \in MappedCodes
                        THEN Exc(code_exceptions_mapping[int_code], int_code, StrOf(data))
                        ELSE Exc("RemoteException", int_code, StrOf(data))
             IN  IF raising THEN Raised(exc) ELSE Returned(exc)

----------------------------------------------------------------------------
(* Correlation tokens: echo = str(hash(future)).  A Future lives at an     *)
(* address; object.__hash__ is the address shifted by the alignment.       *)

FutIds == {16 * i : i \in 1..NumFutures}

Hash(p) == p \div 16

Digit(d) == CASE d = 0 -> "0" [] d = 1 -> "1" [] d = 2 -> "2" [] d = 3 -> "3"
              [] d = 4 -> "4" [] d = 5 -> "5" [] d = 6 -> "6" [] d = 7 -> "7"
              [] d = 8 -> "8" [] d = 9 -> "9"

RECURSIVE Str(_)
Str(n) == IF n < 0 THEN "-" \o Str(0 - n)
          ELSE IF n < 10 THEN Digit(n)
          ELSE Str(n \div 10) \o Digit(n % 10)

Echo(p) == Str(Hash(p))

Tokens == {Echo(p) : p \in FutIds}

----------------------------------------------------------------------------
(* Inbound WebSocket frames: what ws.receive() hands to json.loads          *)

Frame(code, syncId, data) ==
    [kind |-> "json", code |-> code, syncId |-> syncId, data |-> data]

\* text that json.loads rejects
Garbage == [kind |-> "garbage", code |-> NoCode, syncId |-> NoSync, data |-> NoneV]

\* the decoded frame as validate_response sees it: its "code" and "data" keys
AsDict(f) == Dict(f.code, "", "", 0, 0, f.data)

----------------------------------------------------------------------------
(* event.py: the variant registry and the fields a variant requires         *)

EVENT_CLASSES == {"BotOnlineEvent"}

RequiredFields == [t \in EVENT_CLASSES |-> {"qq"}]

\* type_validate_python(cls, body) succeeds
Validates(cls, body) ==
    cls = "Event" \/ \A k \in RequiredFields[cls] : HasKey(body, k)

\* the event object: its class and its __event_type__
EventObj(cls, event_type) == [cls |-> cls, event_type |-> event_type]

----------------------------------------------------------------------------
VARIABLES
    clients,        \* mirai_config.mirai_clients: slot -> [account, only_ws]
    pc,             \* Adapter.tasks: where each ws() task is suspended
    bots,           \* Adapter.bots: accounts registered online
    wss,            \* Adapter.wss: account -> task whose socket is stored
    session_keys,   \* Adapter.session_keys
    tables,         \* accounts that have an entry in Adapter.response_waiters
    waiters,        \* Adapter.response_waiters[account]: token -> Future
    fut,            \* the Future object at each address
    call,           \* the call() invocations in progress
    handlers,       \* unfinished tasks created for bot.handle_event(event)
    shutdown,       \* Adapter.shutdown has cancelled the tasks
    made,           \* accounts for which ws() has created a Bot object
    attempts,       \* per task: connection attempts since its last session ended
    fails,          \* per task: connection setups that raised since then
    sleeps,         \* per task: asyncio.sleep(5) waits completed since then
    onlines         \* per task: bot_connect transitions emitted since then

vars == <<clients, pc, bots, wss, session_keys, tables, waiters, fut, call,
          handlers, shutdown, made, attempts, fails, sleeps, onlines>>

\* the variables a step of one part of the engine leaves alone
taskVars == <<pc, attempts, fails, sleeps, onlines>>
registryVars == <<bots, wss, tables, made>>
callVars == <<waiters, fut, call>>

Acct(s) == clients[s].account
Configured == {s \in Sups : clients[s].account # NoAccount}

Client(account, only_ws) == [account |-> account, only_ws |-> only_ws]
Unused == Client(NoAccount, FALSE)

\* ClientInfo of an account (the first slot that names it)
InfoOf(a) == clients[CHOOSE s \in Sups : clients[s].account = a]

Pending == [st |-> "pending", val |-> NoneV]
Free == [st |-> "free", val |-> NoneV]
Done(st, v) == [st |-> st, val |-> v]

Idle == [pc |-> "idle", a |-> NoAccount, fid |-> NoFut, msg |-> NoneV, out |-> NoneV]

EmptyTable == [k \in {} |-> NoFut]

\* state after Adapter.__init__, for a given configuration
InitWith(cfg) ==
    /\ clients = cfg
    /\ pc = [s \in Sups |-> "unstarted"]
    /\ bots = {}
    /\ wss = [a \in Accounts |-> NoWs]
    /\ session_keys = [a \in Accounts |-> NoKey]
    /\ tables = {}
    /\ waiters = [a \in Accounts |-> EmptyTable]
    /\ fut = [p \in FutIds |-> Free]
    /\ call = [c \in Calls |-> Idle]
    /\ handlers = <<>>
    /\ shutdown = FALSE
    /\ made = {}
    /\ attempts = [s \in Sups |-> 0]
    /\ fails = [s \in Sups |-> 0]
    /\ sleeps = [s \in Sups |-> 0]
    /\ onlines = [s \in Sups |-> 0]

\* one WS-only account
Init == InitWith([s \in Sups |-> IF s = 1 THEN Client(1, TRUE) ELSE Unused])

----------------------------------------------------------------------------
(* Adapter.startup / Adapter.shutdown                                       *)

\* startup: one task per client, each runs ws() up to its first await
Startup ==
    /\ ~shutdown
    /\ \A s \in Sups : pc[s] = "unstarted"
    /\ pc' = [s \in Sups |-> IF s \in Configured THEN "connecting" ELSE "unstarted"]
    /\ attempts' = [s \in Sups |-> IF s \in Configured THEN 1 ELSE 0]
    /\ UNCHANGED <<clients, registryVars, session_keys, callVars, handlers, shutdown,
                   fails, sleeps, onlines>>

\* shutdown: task.cancel() on every task that is not done
Shutdown ==
    /\ ~shutdown
    /\ \E s \in Sups : pc[s] # "unstarted"
    /\ shutdown' = TRUE
    /\ UNCHANGED <<clients, taskVars, registryVars, session_keys, callVars, handlers>>

----------------------------------------------------------------------------
(* Adapter.ws: the reconnect supervisor                                     *)

\* a finally block that unregisters the bot and keeps the socket in wss
Teardown_KeepHandle(s, after) ==
    LET a == Acct(s) IN
    /\ fails' = [fails EXCEPT ![s] = 0]
    /\ sleeps' = [sleeps EXCEPT ![s] = 0]
    /\ onlines' = [onlines EXCEPT ![s] = 0]
    /\ bots' = bots \ {a}
    /\ pc' = [pc EXCEPT ![s] = after]
    /\ attempts' = [attempts EXCEPT ![s] = IF after = "connecting" THEN 1 ELSE 0]
    /\ UNCHANGED <<wss, tables, made>>

\* the finally block of ws(): bot_disconnect(bot); wss.pop(account).
\* bot_disconnect raises when the bot is not registered, and then the pop
\* is skipped and the error reaches the outer except (sleep and retry).
\* "after" is where the task goes when the block completes: "connecting"
\* (the while loop starts the next attempt at once) or "cancelled".
Teardown(s, after) ==
    LET a == Acct(s) IN
    /\ fails' = [fails EXCEPT ![s] = 0]
    /\ sleeps' = [sleeps EXCEPT ![s] = 0]
    /\ onlines' = [onlines EXCEPT ![s] = 0]
    /\ IF a \in bots
       THEN /\ bots' = bots \ {a}
            /\ wss' = [wss EXCEPT ![a] = NoWs]
            /\ pc' = [pc EXCEPT ![s] = after]
            /\ attempts' = [attempts EXCEPT ![s] = IF after = "connecting" THEN 1 ELSE 0]
       ELSE /\ pc' = [pc EXCEPT ![s] = "sleeping"]
            /\ attempts' = [attempts EXCEPT ![s] = 0]
            /\ UNCHANGED <<bots, wss>>
    /\ UNCHANGED <<tables, made>>

\* an exception (not a cancellation) leaves _loop: it is logged, the
\* finally block runs and the while loop goes on
Abort(s) ==
    /\ Teardown(s, "connecting")
    /\ UNCHANGED <<clients, session_keys, callVars, handlers, shutdown>>

\* a supervisor that builds and registers a Bot for every connection
ConnectOk_Always(s) ==
    LET a == Acct(s) IN
    /\ pc[s] = "connecting" /\ ~shutdown
    /\ bots' = bots \cup {a}
    /\ made' = made \cup {a}
    /\ onlines' = [onlines EXCEPT ![s] = @ + 1]
    /\ tables' = tables \cup {a}
    /\ wss' = [wss EXCEPT ![a] = s]
    /\ pc' = [pc EXCEPT ![s] = "loop"]
    /\ UNCHANGED <<clients, session_keys, callVars, handlers, shutdown,
                   attempts, fails, sleeps>>

\* the connection is set up: register the bot, store the socket, enter _loop
ConnectOk(s) ==
    LET a == Acct(s) IN
    /\ pc[s] = "connecting" /\ ~shutdown
    /\ IF a \notin bots
       THEN /\ bots' = bots \cup {a}
            /\ made' = made \cup {a}
            /\ onlines' = [onlines EXCEPT ![s] = @ + 1]
            /\ tables' = tables \cup {a}
       ELSE UNCHANGED <<bots, made, onlines, tables>>
    /\ wss' = [wss EXCEPT ![a] = s]
    /\ pc' = [pc EXCEPT ![s] = "loop"]
    /\ UNCHANGED <<clients, session_keys, callVars, handlers, shutdown,
                   attempts, fails, sleeps>>

\* the outer except clause without its sleep: the next attempt starts at once
ConnectFail_NoSleep(s) ==
    /\ pc[s] = "connecting" /\ ~shutdown
    /\ fails[s] < MaxAttempts - 1
    /\ fails' = [fails EXCEPT ![s] = @ + 1]
    /\ attempts' = [attempts EXCEPT ![s] = @ + 1]
    /\ UNCHANGED <<clients, pc, registryVars, session_keys, callVars, handlers, shutdown,
                   sleeps, onlines>>

\* the connection setup raises: log and sleep 5 (the transport fails at
\* most MaxAttempts - 1 times in a row)
ConnectFail(s) ==
    /\ pc[s] = "connecting" /\ ~shutdown
    /\ fails[s] < MaxAttempts - 1
    /\ pc' = [pc EXCEPT ![s] = "sleeping"]
    /\ fails' = [fails EXCEPT ![s] = @ + 1]
    /\ UNCHANGED <<clients, registryVars, session_keys, callVars, handlers, shutdown,
                   attempts, sleeps, onlines>>

\* a supervisor whose sleep is followed by a return instead of the next
\* iteration of the while loop
Wake_Return(s) ==
    /\ pc[s] = "sleeping" /\ ~shutdown
    /\ pc' = [pc EXCEPT ![s] = "returned"]
    /\ UNCHANGED <<clients, registryVars, session_keys, callVars, handlers, shutdown,
                   attempts, fails, sleeps, onlines>>

\* asyncio.sleep(5) is over: the while loop starts the next attempt
Wake(s) ==
    /\ pc[s] = "sleeping" /\ ~shutdown
    /\ pc' = [pc EXCEPT ![s] = "connecting"]
    /\ sleeps' = [sleeps EXCEPT ![s] = @ + 1]
    /\ attempts' = [attempts EXCEPT ![s] = @ + 1]
    /\ UNCHANGED <<clients, registryVars, session_keys, callVars, handlers, shutdown,
                   fails, onlines>>

\* a supervisor that goes back to connecting without its finally block when
\* the socket is closed
Closed_NoTeardown(s) ==
    /\ pc[s] = "loop" /\ ~shutdown
    /\ pc' = [pc EXCEPT ![s] = "connecting"]
    /\ UNCHANGED <<registryVars, attempts, fails, sleeps, onlines>>
    /\ UNCHANGED <<clients, session_keys, callVars, handlers, shutdown>>

\* ws.receive() raises WebSocketClosed
Closed(s) ==
    /\ pc[s] = "loop" /\ ~shutdown
    /\ Abort(s)

\* a cancellation that ends the task without running the finally block
Cancelled_NoTeardown(s) ==
    /\ shutdown
    /\ pc[s] \in {"connecting", "loop", "sleeping"}
    /\ pc' = [pc EXCEPT ![s] = "cancelled"]
    /\ UNCHANGED <<registryVars, attempts, fails, sleeps, onlines>>
    /\ UNCHANGED <<clients, session_keys, callVars, handlers, shutdown>>

\* the CancelledError of shutdown arrives at the task's suspension point
Cancelled(s) ==
    /\ shutdown
    /\ pc[s] \in {"connecting", "loop", "sleeping"}
    /\ IF pc[s] = "loop"
       THEN Teardown(s, "cancelled")
       ELSE /\ pc' = [pc EXCEPT ![s] = "cancelled"]
            /\ UNCHANGED <<registryVars, attempts, fails, sleeps, onlines>>
    /\ UNCHANGED <<clients, session_keys, callVars, handlers, shutdown>>

----------------------------------------------------------------------------
(* Adapter._loop: one iteration, from ws.receive() returning a frame to the *)
(* next ws.receive()                                                        *)

\* the iteration ends with "continue" and changes nothing
Continue ==
    UNCHANGED vars

\* a resolution that reaches every pending Future of the table
Settle_Every(s, p, st, v) ==
    /\ fut' = [q \in FutIds |->
                IF fut[q].st = "pending"
                   /\ \E k \in DOMAIN waiters[Acct(s)] : waiters[Acct(s)][k] = q
                THEN Done(st, v) ELSE fut[q]]
    /\ UNCHANGED <<clients, taskVars, registryVars, session_keys, waiters, call, handlers,
                   shutdown>>

\* future.set_result / future.set_exception: InvalidStateError unless the
\* Future is still pending
Settle(s, p, st, v) ==
    IF fut[p].st = "pending"
    THEN /\ fut' = [fut EXCEPT ![p] = Done(st, v)]
         /\ UNCHANGED <<clients, taskVars, registryVars, session_keys, waiters, call, handlers,
                           shutdown>>
    ELSE Abort(s)

\* a loop that keeps one credential for all the accounts
StoreSession_Shared(a, key) ==
    /\ session_keys' = [b \in Accounts |-> key]
    /\ UNCHANGED <<clients, taskVars, registryVars, callVars, handlers, shutdown>>

\* lines 168-174: the session announcement
StoreSession(a, key) ==
    /\ session_keys' = [session_keys EXCEPT ![a] = key]
    /\ UNCHANGED <<clients, taskVars, registryVars, callVars, handlers, shutdown>>

\* a decoder that builds the base Event for every tag
Dispatch_Generic(s, body) ==
    /\ Len(handlers) < MaxHandlers
    /\ handlers' = Append(handlers, [a |-> Acct(s), event |-> EventObj("Event", body.type)])
    /\ UNCHANGED <<clients, taskVars, registryVars, session_keys, callVars, shutdown>>

\* a decoder that looks every tag up in the registry and fails on a miss
Dispatch_KnownOnly(s, body) ==
    IF body.type \notin EVENT_CLASSES \/ ~Validates(body.type, PopType(body))
       \/ Acct(s) \notin bots
    THEN Abort(s)
    ELSE /\ Len(handlers) < MaxHandlers
         /\ handlers' = Append(handlers,
                [a |-> Acct(s), event |-> EventObj(body.type, body.type)])
         /\ UNCHANGED <<clients, taskVars, registryVars, session_keys, callVars, shutdown>>

\* a loop that awaits bot.handle_event(event) itself instead of creating a
\* task for it
Dispatch_Inline(s, body) ==
    /\ Len(handlers) < MaxHandlers
    /\ handlers' = Append(handlers, [a |-> Acct(s), event |-> EventObj("Event", body.type)])
    /\ pc' = [pc EXCEPT ![s] = "handling"]
    /\ UNCHANGED <<attempts, fails, sleeps, onlines>>
    /\ UNCHANGED <<clients, registryVars, session_keys, callVars, shutdown>>

\* a loop that hands the event to the Bot it got when the connection was
\* established, without looking the account up in the registry
Dispatch_Captured(s, body) ==
    LET a == Acct(s)
        event_type == body.type
        cls == IF event_type \in EVENT_CLASSES THEN event_type ELSE "Event"
    IN  IF ~Validates(cls, PopType(body))
        THEN Abort(s)
        ELSE /\ Len(handlers) < MaxHandlers
             /\ handlers' = Append(handlers, [a |-> a, event |-> EventObj(cls, event_type)])
             /\ UNCHANGED <<clients, taskVars, registryVars, session_keys, callVars, shutdown>>

\* lines 183-194: decode the event and create the task that handles it
Dispatch(s, body) ==
    LET a == Acct(s)
        event_type == body.type
        cls == IF event_type \in EVENT_CLASSES THEN event_type ELSE "Event"
    IN  IF ~Validates(cls, PopType(body)) \/ a \notin bots
        THEN Abort(s)
        ELSE /\ Len(handlers) < MaxHandlers
             /\ handlers' = Append(handlers, [a |-> a, event |-> EventObj(cls, event_type)])
             /\ UNCHANGED <<clients, taskVars, registryVars, session_keys, callVars, shutdown>>

\* a default token that is a numeral: data.get("syncId", "1")
SyncIdOf_Numeral(f) == IF f.syncId = NoSync THEN "1" ELSE f.syncId

\* data.get("syncId", "#")
SyncIdOf(f) == IF f.syncId = NoSync THEN "#" ELSE f.syncId

\* a loop that looks the token up before it looks for the session field
Receive_TokenFirst(s, f) ==
    LET a == Acct(s)
        top == IF f.code # NoCode THEN validate_response(AsDict(f), TRUE)
               ELSE Returned(NoneV)
        sync_id == SyncIdOf(f)
        res == validate_response(f.data, FALSE)
        body == res.val
    IN  /\ pc[s] = "loop" /\ ~shutdown
        /\ IF f.kind = "garbage" \/ top.how = "raise" \/ res.how = "raise"
           THEN Abort(s)
           ELSE IF a \notin tables THEN Abort(s)
           ELSE IF sync_id \in DOMAIN waiters[a]
           THEN Settle(s, waiters[a][sync_id],
                       IF IsExc(body) THEN "exception" ELSE "result", body)
           ELSE IF IsExc(body)
           THEN Continue
           ELSE IF HasKey(body, "session")
           THEN StoreSession(a, body.session)
           ELSE IF ~HasKey(body, "type")
           THEN Continue
           ELSE Dispatch(s, body)

\* a loop that decodes every unmatched payload as an event, tagged or not
Receive_UntypedEvent(s, f) ==
    LET a == Acct(s)
        top == IF f.code # NoCode THEN validate_response(AsDict(f), TRUE)
               ELSE Returned(NoneV)
        sync_id == SyncIdOf(f)
        res == validate_response(f.data, FALSE)
        body == res.val
    IN  /\ pc[s] = "loop" /\ ~shutdown
        /\ IF f.kind = "garbage" \/ top.how = "raise" \/ res.how = "raise"
           THEN Abort(s)
           ELSE IF IsExc(body)
           THEN IF a \notin tables THEN Abort(s)
                ELSE IF sync_id \in DOMAIN waiters[a]
                THEN Settle(s, waiters[a][sync_id], "exception", body)
                ELSE Continue
           ELSE IF HasKey(body, "session")
           THEN StoreSession(a, body.session)
           ELSE IF a \notin tables THEN Abort(s)
           ELSE IF sync_id \in DOMAIN waiters[a]
           THEN Settle(s, waiters[a][sync_id], "result", body)
           ELSE Dispatch(s, body)

Receive(s, f) ==
    LET a == Acct(s)
        top == IF f.code # NoCode THEN validate_response(AsDict(f), TRUE)
               ELSE Returned(NoneV)
        sync_id == SyncIdOf(f)
        res == validate_response(f.data, FALSE)
        body == res.val
    IN  /\ pc[s] = "loop" /\ ~shutdown
        /\ IF f.kind = "garbage" \/ top.how = "raise" \/ res.how = "raise"
           THEN Abort(s)
           ELSE IF IsExc(body)
           THEN IF a \notin tables THEN Abort(s)
                ELSE IF sync_id \in DOMAIN waiters[a]
                THEN Settle(s, waiters[a][sync_id], "exception", body)
                ELSE Continue
           ELSE IF HasKey(body, "session")
           THEN StoreSession(a, body.session)
           ELSE IF a \notin tables THEN Abort(s)
           ELSE IF sync_id \in DOMAIN waiters[a]
           THEN Settle(s, waiters[a][sync_id], "result", body)
           ELSE IF ~HasKey(body, "type")
           THEN Continue
           ELSE Dispatch(s, body)

\* a task created for bot.handle_event(event) finishes
HandlerDone(i) ==
    /\ i \in 1..Len(handlers)
    /\ handlers' = SubSeq(handlers, 1, i - 1) \o SubSeq(handlers, i + 1, Len(handlers))
    /\ UNCHANGED <<clients, taskVars, registryVars, session_keys, callVars, shutdown>>

----------------------------------------------------------------------------
(* Adapter.call, _call_ws, _call_http: the call router                      *)

Methods == {"get", "post", "multipart"}
Actions == {"file_list"}
NoParams == "None"                  \* params is None
SomeParams == "{'target': 123}"
Params == {NoParams, SomeParams}

\* action.replace("_", "/")
Route(action) == CASE action = "file_list" -> "file/list"
                   [] action = "sendGroupMessage" -> "sendGroupMessage"

\* a frame builder that sends every method name as it is
SubCommand_Raw(method) == method

\* {"fetch": "get", "post": "update"}.get(method) or method
SubCommand(method) == CASE method = "fetch" -> "get"
                        [] method = "post" -> "update"
                        [] OTHER -> method

\* params or {}
Content(params) == IF params = NoParams THEN "{}" ELSE params

\* a message
Text(m) == [kind |-> "text", text |-> m]

\* the frame _call_ws writes to the socket
WsFrame(method, echo, action, params, key) ==
    [kind |-> "ws", subCommand |-> SubCommand(method), syncId |-> echo,
     command |-> action, content |-> Content(params), sessionKey |-> key]

\* the Request _call_http issues
HttpRequest(verb, action, params, key) ==
    [kind |-> "http", verb |-> verb, url |-> Route(action),
     content |-> Content(params), sessionKey |-> key]

\* the call ended: it returned or raised "out"
Ended(a, out) == [pc |-> "done", a |-> a, fid |-> NoFut, msg |-> NoneV, out |-> out]

\* the table without a key
Without(table, k) == [x \in DOMAIN table \ {k} |-> table[x]]

\* table[k] = p
With(table, k, p) == [x \in DOMAIN table \cup {k} |-> IF x = k THEN p ELSE table[x]]

\* the call raises before it issues anything
Fail(c, a, cls, text) ==
    /\ call' = [call EXCEPT ![c] = Ended(a, Raised(Exc(cls, NoCode, Text(text))))]
    /\ UNCHANGED <<waiters, fut>>

\* an HTTP path that sends a multipart request with no parts when params is
\* None
CallHttp_NoParamsTest(c, a, action, method, params, session) ==
    IF session /\ session_keys[a] = NoKey
    THEN Fail(c, a, "RuntimeError", "No session key available.")
    ELSE /\ call' = [call EXCEPT ![c] =
                [pc |-> "http", a |-> a, fid |-> NoFut, out |-> NoneV,
                 msg |-> HttpRequest(CASE method = "get" -> "GET"
                                       [] method = "post" -> "POST"
                                       [] OTHER -> "MULTIPART",
                                     action, params,
                                     IF session THEN session_keys[a] ELSE NoKey)]]
         /\ UNCHANGED <<waiters, fut>>

\* lines 257-298: _call_http up to the await of the request
CallHttp(c, a, action, method, params, session) ==
    IF session /\ session_keys[a] = NoKey
    THEN Fail(c, a, "RuntimeError", "No session key available.")
    ELSE IF method \notin {"get", "post"} /\ params = NoParams
    THEN Fail(c, a, "TypeError", "multipart requires params")
    ELSE /\ call' = [call EXCEPT ![c] =
                [pc |-> "http", a |-> a, fid |-> NoFut, out |-> NoneV,
                 msg |-> HttpRequest(CASE method = "get" -> "GET"
                                       [] method = "post" -> "POST"
                                       [] OTHER -> "MULTIPART",
                                     action, params,
                                     IF session THEN session_keys[a] ELSE NoKey)]]
         /\ UNCHANGED <<waiters, fut>>

\* a token source that is not tied to the live Futures
FreeAddresses_Any == FutIds

\* the addresses a new Future can get: those no live Future occupies
FreeAddresses == {p \in FutIds : fut[p].st = "free"}

\* a WS path that creates and registers the Future before it tests the
\* socket and the session key
CallWs_RegisterFirst(c, a, action, method, params, session) ==
    \E p \in FreeAddresses :
        LET echo == Echo(p) IN
        /\ fut' = [fut EXCEPT ![p] = Pending]
        /\ waiters' = [waiters EXCEPT ![a] = With(@, echo, p)]
        /\ call' = [call EXCEPT ![c] =
              IF wss[a] = NoWs
              THEN Ended(a, Raised(Exc("RuntimeError", NoCode,
                                       Text("connection is not established"))))
              ELSE IF session /\ session_keys[a] = NoKey
              THEN Ended(a, Raised(Exc("RuntimeError", NoCode,
                                       Text("No session key available."))))
              ELSE [pc |-> "send", a |-> a, fid |-> p, out |-> NoneV,
                    msg |-> WsFrame(method, echo, action, params,
                                    IF session THEN session_keys[a] ELSE NoKey)]]

\* lines 220-243: _call_ws up to the await of ws.send
CallWs(c, a, action, method, params, session) ==
    IF wss[a] = NoWs
    THEN Fail(c, a, "RuntimeError", "connection is not established")
    ELSE IF session /\ session_keys[a] = NoKey
    THEN Fail(c, a, "RuntimeError", "No session key available.")
    ELSE IF method = "multipart"
    THEN CallHttp(c, a, action, method, params, TRUE)
    ELSE \E p \in FreeAddresses :
            LET echo == Echo(p) IN
            IF a \notin tables
            THEN Fail(c, a, "KeyError", "response_waiters")
            ELSE /\ fut' = [fut EXCEPT ![p] = Pending]
                 /\ waiters' = [waiters EXCEPT ![a] = With(@, echo, p)]
                 /\ call' = [call EXCEPT ![c] =
                        [pc |-> "send", a |-> a, fid |-> p, out |-> NoneV,
                         msg |-> WsFrame(method, echo, action, params,
                                         IF session THEN session_keys[a] ELSE NoKey)]]

\* call(bot, action, method, params, session) up to its first suspension;
\* the caller holds the Bot of an account that has connected before
CallStart(c, a, action, method, params, session) ==
    /\ call[c].pc = "idle"
    /\ a \in made
    /\ IF InfoOf(a).only_ws
       THEN CallWs(c, a, action, method, params, session)
       ELSE CallHttp(c, a, action, method, params, session)
    /\ UNCHANGED <<clients, taskVars, registryVars, session_keys, handlers, shutdown>>

\* a call that ends without the finally block
Finish_KeepEntry(c, out) ==
    /\ call' = [call EXCEPT ![c] = Ended(call[c].a, out)]
    /\ UNCHANGED <<clients, taskVars, registryVars, session_keys, waiters, fut, handlers,
                   shutdown>>

\* the finally block of _call_ws and the end of the call: the entry is
\* deleted (KeyError when it is not there) and the Future is released
Finish(c, out) ==
    LET a == call[c].a
        p == call[c].fid
        echo == Echo(p)
    IN  /\ call' = [call EXCEPT ![c] =
                Ended(a, IF echo \in DOMAIN waiters[a] THEN out
                         ELSE Raised(Exc("KeyError", NoCode, Text(echo))))]
        /\ waiters' = [waiters EXCEPT ![a] = Without(@, echo)]
        /\ fut' = [fut EXCEPT ![p] = Free]
        /\ UNCHANGED <<clients, taskVars, registryVars, session_keys, handlers, shutdown>>

\* what "await future" gives once the Future is done
Outcome(f) == CASE f.st = "result" -> Returned(f.val)
                [] f.st = "exception" -> Raised(f.val)
                [] f.st = "cancelled" -> Raised(Exc("CancelledError", NoCode, NoneV))

\* ws.send returned: await the Future (no suspension when it is done)
SendOk(c) ==
    /\ call[c].pc = "send"
    /\ IF fut[call[c].fid].st = "pending"
       THEN /\ call' = [call EXCEPT ![c].pc = "await", ![c].msg = NoneV]
            /\ UNCHANGED <<clients, taskVars, registryVars, session_keys, waiters, fut, handlers,
                           shutdown>>
       ELSE Finish(c, Outcome(fut[call[c].fid]))

\* a router that drops the account's socket when ws.send fails
SendFail_DropHandle(c) ==
    /\ call[c].pc = "send"
    /\ call' = [call EXCEPT ![c] =
            Ended(call[c].a, Raised(Exc("WebSocketClosed", NoCode, NoneV)))]
    /\ waiters' = [waiters EXCEPT ![call[c].a] = Without(@, Echo(call[c].fid))]
    /\ fut' = [fut EXCEPT ![call[c].fid] = Free]
    /\ wss' = [wss EXCEPT ![call[c].a] = NoWs]
    /\ UNCHANGED <<clients, taskVars, bots, tables, made, session_keys, handlers, shutdown>>

\* ws.send raised
SendFail(c) ==
    /\ call[c].pc = "send"
    /\ Finish(c, Raised(Exc("WebSocketClosed", NoCode, NoneV)))

\* a call that does not wait for the resolution: it returns None when the
\* Future is still pending
Resume_Unawaited(c) ==
    /\ call[c].pc = "await"
    /\ Finish(c, IF fut[call[c].fid].st = "pending" THEN Returned(NoneV)
                 ELSE Outcome(fut[call[c].fid]))

\* the Future is done and the awaiting call resumes
Resume(c) ==
    /\ call[c].pc = "await"
    /\ fut[call[c].fid].st # "pending"
    /\ Finish(c, Outcome(fut[call[c].fid]))

\* the task that runs the call is cancelled
Cancel(c) ==
    /\ call[c].pc \in {"send", "await", "http"}
    /\ IF call[c].pc = "await" /\ fut[call[c].fid].st = "pending"
       THEN /\ fut' = [fut EXCEPT ![call[c].fid] = Done("cancelled", NoneV)]
            /\ UNCHANGED <<clients, taskVars, registryVars, session_keys, waiters, call, handlers,
                           shutdown>>
       ELSE IF call[c].pc = "http"
       THEN /\ call' = [call EXCEPT ![c] =
                   Ended(call[c].a, Raised(Exc("CancelledError", NoCode, NoneV)))]
            /\ UNCHANGED <<clients, taskVars, registryVars, session_keys, waiters, fut, handlers,
                           shutdown>>
       ELSE Finish(c, Raised(Exc("CancelledError", NoCode, NoneV)))

\* what self.request(req) gives: an exception, or a Response with a status
\* code, headers and a content
TransportError == [kind |-> "error"]
Response(status, headers, content) ==
    [kind |-> "response", status |-> status, headers |-> headers, content |-> content]

NoBytes == [kind |-> "bytes", text |-> ""]            \* b""
NotJson == [kind |-> "bytes", text |-> "<html>"]      \* json.loads rejects it
HttpBodies == {Wrapped, ErrInvalidSession}            \* what json.loads decodes
HttpResponses ==
    {TransportError}
    \cup {Response(st, "h", b) : st \in {200, 500}, b \in {NoBytes, NotJson} \cup HttpBodies}

\* what an ActionFailed built at lines 302 and 306 holds beside its status
Raw(msg, headers, content) ==
    [kind |-> "raw", msg |-> msg, headers |-> headers, content |-> content]

\* an HTTP path that wraps every failure as a remote error with status 500
HttpDone_Wrap(c, resp) ==
    /\ call[c].pc = "http"
    /\ call' = [call EXCEPT ![c] = Ended(call[c].a,
            IF resp.kind = "error" \/ resp.content.kind = "bytes"
            THEN Raised(Exc("RemoteException", 500, NoneV))
            ELSE validate_response(resp.content, TRUE))]
    /\ UNCHANGED <<clients, taskVars, registryVars, session_keys, waiters, fut, handlers,
                   shutdown>>

\* lines 297-307: the HTTP round trip is over
HttpDone(c, resp) ==
    /\ call[c].pc = "http"
    /\ call' = [call EXCEPT ![c] = Ended(call[c].a,
            IF resp.kind = "error"
            THEN Raised(Exc("RemoteException", 500, NoneV))
            ELSE IF resp.content = NoBytes
            THEN Raised(Exc("ActionFailed", resp.status,
                            Raw("Empty response", resp.headers, resp.content)))
            ELSE IF resp.content.kind = "bytes"
            THEN Raised(Exc("ActionFailed", resp.status,
                            Raw("Invalid response", resp.headers, resp.content)))
            ELSE validate_response(resp.content, TRUE))]
    /\ UNCHANGED <<clients, taskVars, registryVars, session_keys, waiters, fut, handlers,
                   shutdown>>

\* the caller has taken the outcome
Forget(c) ==
    /\ call[c].pc = "done"
    /\ call' = [call EXCEPT ![c] = Idle]
    /\ UNCHANGED <<clients, taskVars, registryVars, session_keys, waiters, fut, handlers,
                           shutdown>>

----------------------------------------------------------------------------
(* The call router with the supervisor: NumCalls concurrent WS calls, and   *)
(* a backend that answers tokens and announces a session                    *)

ReplyFrames ==
    {Frame(NoCode, t, d) : t \in Tokens, d \in {OkResult, ErrInvalidSession}}
    \cup {Frame(NoCode, NoSync, SessionAnn("s1"))}

Next ==
    \/ Startup
    \/ Shutdown
    \/ \E s \in Configured : ConnectOk(s)
    \/ \E s \in Configured : Closed(s)
    \/ \E s \in Configured : Cancelled(s)
    \/ \E s \in Configured, f \in ReplyFrames : Receive(s, f)
    \/ \E c \in Calls, a \in Accounts, session \in BOOLEAN :
            CallStart(c, a, "file_list", "post", SomeParams, session)
    \/ \E c \in Calls : SendOk(c)
    \/ \E c \in Calls : SendFail(c)
    \/ \E c \in Calls : Resume(c)
    \/ \E c \in Calls : Cancel(c)
    \/ \E c \in Calls : Forget(c)

Spec == Init /\ [][Next]_vars

----------------------------------------------------------------------------
(* The receive loop against every kind of frame: answers to tokens, session *)
(* announcements, events, error payloads, top-level codes, undecodable text *)

LoopFrames ==
    {Frame(NoCode, NoSync, d) :
        d \in {NoneV, OkResult, ErrInvalidSession, SessionAnn("s1"), ErrWithSession,
               KnownEvent, KnownEventBad, FutureEvent, SessionEvent, ErrEvent, Plain}}
    \cup {Frame(NoCode, t, d) :
            t \in Tokens,
            d \in {SessionAnn("s1"), ErrWithSession, KnownEvent}}
    \cup {Frame(0, NoSync, KnownEvent), Frame(5, NoSync, KnownEvent),
          Frame(5, NoSync, SessionAnn("s1")), Garbage}

NextLoop ==
    \/ Startup
    \/ \E s \in Configured : ConnectOk(s)
    \/ \E s \in Configured, f \in LoopFrames : Receive(s, f)
    \/ \E i \in 1..MaxHandlers : HandlerDone(i)
    \/ \E c \in Calls, a \in Accounts :
            CallStart(c, a, "file_list", "post", SomeParams, FALSE)
    \/ \E c \in Calls : SendOk(c)
    \/ \E c \in Calls : Resume(c)
    \/ \E c \in Calls : Forget(c)

SpecLoop == Init /\ [][NextLoop]_vars

----------------------------------------------------------------------------
(* The supervisors of two accounts against a transport that refuses         *)
(* connections, closes sockets and sends undecodable text                   *)

InitSup == InitWith([s \in Sups |-> Client(s, TRUE)])

SupFrames == {Frame(NoCode, NoSync, SessionAnn("s1")), Garbage}

NextSup ==
    \/ Startup
    \/ Shutdown
    \/ \E s \in Configured : ConnectOk(s)
    \/ \E s \in Configured : ConnectFail(s)
    \/ \E s \in Configured : Wake(s)
    \/ \E s \in Configured : Closed(s)
    \/ \E s \in Configured : Cancelled(s)
    \/ \E s \in Configured, f \in SupFrames : Receive(s, f)

SpecSup == InitSup /\ [][NextSup]_vars

\* the event loop's timer ends every asyncio.sleep(5)
LiveSup == SpecSup /\ \A s \in Sups : WF_vars(Wake(s))

----------------------------------------------------------------------------
(* Adapter.validate_response called directly, in both modes, on envelopes,  *)
(* bare numbers and None                                                    *)

UnmappedCodes == {7, 99}
Codes == {0, 200} \cup MappedCodes \cup UnmappedCodes

\* {"code": c, "msgId": 456}
Envelope(c) == Dict(c, "", "", 0, 456, NoneV)

\* {"code": c, "data": {"msgId": 456}}
EnvelopeWithData(c) == Dict(c, "", "", 0, 0, Dict(NoCode, "", "", 0, 456, NoneV))

ValInputs ==
    {Envelope(c) : c \in Codes} \cup {Num(c) : c \in Codes}
    \cup {EnvelopeWithData(c) : c \in {0, 200, 3, 99}}
    \cup {NoneV, Plain}

\* the arguments of one validate_response call
Args(data, raising) == [kind |-> "args", data |-> data, raising |-> raising]

\* Adapter.validate_response(data, raising) called by a collaborator; the
\* call record keeps the arguments beside the outcome
Validate(c, data, raising) ==
    /\ call[c].pc = "idle"
    /\ call' = [call EXCEPT ![c] =
            [pc |-> "done", a |-> NoAccount, fid |-> NoFut,
             msg |-> Args(data, raising), out |-> validate_response(data, raising)]]
    /\ UNCHANGED <<clients, taskVars, registryVars, session_keys, waiters, fut, handlers,
                   shutdown>>

NextVal ==
    \/ \E c \in Calls, data \in ValInputs, raising \in BOOLEAN : Validate(c, data, raising)
    \/ \E c \in Calls : Forget(c)

SpecVal == Init /\ [][NextVal]_vars

\* the call record holds a finished validate_response call
Validated(c) == call[c].pc = "done" /\ call[c].msg.kind = "args"

----------------------------------------------------------------------------
(* The call router, one call at a time, for every method, params and        *)
(* session flag, on a WS-only account and on an account that is not         *)
(* WS-only, in every connection state                                       *)

InitCall == InitWith([s \in Sups |-> Client(s, s = 1)])

CallFrames ==
    {Frame(NoCode, NoSync, SessionAnn("s1"))}
    \cup {Frame(NoCode, t, OkResult) : t \in Tokens}

NextCall ==
    \/ Startup
    \/ \E s \in Configured : ConnectOk(s)
    \/ \E s \in Configured : Closed(s)
    \/ \E s \in Configured, f \in CallFrames : Receive(s, f)
    \/ \E a \in Accounts, method \in Methods, params \in Params, session \in BOOLEAN :
            CallStart(1, a, "file_list", method, params, session)
    \/ SendOk(1)
    \/ SendFail(1)
    \/ Resume(1)
    \/ Cancel(1)
    \/ \E resp \in HttpResponses : HttpDone(1, resp)
    \/ Forget(1)

SpecCall == InitCall /\ [][NextCall]_vars

----------------------------------------------------------------------------
(* Calls that are cancelled while the backend still answers their tokens,  *)
(* with plain results and with payloads that carry a type tag              *)

LateFrames == {Frame(NoCode, t, d) : t \in Tokens, d \in {OkResult, KnownEvent}}

NextLate ==
    \/ Startup
    \/ \E s \in Configured : ConnectOk(s)
    \/ \E s \in Configured, f \in LateFrames : Receive(s, f)
    \/ \E i \in 1..MaxHandlers : HandlerDone(i)
    \/ \E c \in Calls, a \in Accounts :
            CallStart(c, a, "file_list", "post", SomeParams, FALSE)
    \/ \E c \in Calls : SendOk(c)
    \/ \E c \in Calls : Resume(c)
    \/ \E c \in Calls : Cancel(c)
    \/ \E c \in Calls : Forget(c)

SpecLate == Init /\ [][NextLate]_vars

----------------------------------------------------------------------------
(* Two accounts side by side: each with its own supervisor, connection     *)
(* failures, frames and reconnects, and a call issued on either of them    *)

PartFrames ==
    {Frame(NoCode, NoSync, SessionAnn("s1")), Garbage}
    \cup {Frame(NoCode, t, OkResult) : t \in Tokens}

NextPart ==
    \/ Startup
    \/ \E s \in Configured : ConnectOk(s)
    \/ \E s \in Configured : ConnectFail(s)
    \/ \E s \in Configured : Wake(s)
    \/ \E s \in Configured : Closed(s)
    \/ \E s \in Configured, f \in PartFrames : Receive(s, f)
    \/ \E a \in Accounts, session \in BOOLEAN :
            CallStart(1, a, "file_list", "post", SomeParams, session)
    \/ SendOk(1)
    \/ SendFail(1)
    \/ Resume(1)
    \/ Forget(1)

SpecPart == InitSup /\ [][NextPart]_vars

----------------------------------------------------------------------------
(* Two clients configured with the same account: two supervisors share the *)
(* account's entries of bots, wss, session_keys and response_waiters        *)

InitDup == InitWith([s \in Sups |-> Client(1, TRUE)])

DupFrames ==
    {Frame(NoCode, NoSync, SessionAnn("s1")), Frame(NoCode, NoSync, KnownEvent), Garbage}

NextDup ==
    \/ Startup
    \/ \E s \in Configured : ConnectOk(s)
    \/ \E s \in Configured : Wake(s)
    \/ \E s \in Configured : Closed(s)
    \/ \E s \in Configured, f \in DupFrames : Receive(s, f)
    \/ \E i \in 1..MaxHandlers : HandlerDone(i)

SpecDup == InitDup /\ [][NextDup]_vars


----------------------------------------------------------------------------
(* Properties                                                               *)

InFlight(c) == call[c].pc \in {"send", "await"}

\* C1: the token a WS call registers and writes in its frame is not a key
\* of the account's pending-request table at the moment it registers it
C1_TokenFresh ==
    [][\A c \in Calls :
        (call[c].pc = "idle" /\ call'[c].pc = "send")
            => /\ call'[c].msg.syncId \notin DOMAIN waiters[call'[c].a]
               /\ call'[c].msg.syncId \in DOMAIN waiters'[call'[c].a]
               /\ \A d \in Calls \ {c} :
                    InFlight(d) /\ call[d].a = call'[c].a
                        => Echo(call[d].fid) # call'[c].msg.syncId]_vars

\* two calls of one account in flight at once, both in the table
C1_Witness ==
    \E c, d \in Calls :
        /\ c # d /\ InFlight(c) /\ InFlight(d) /\ call[c].a = call[d].a
        /\ Cardinality(DOMAIN waiters[call[c].a]) = 2

\* C2: every entry of a pending-request table is the token and the Future
\* of a WS call of that account that has not ended yet
C2_OnlyLiveCalls ==
    \A a \in Accounts : \A k \in DOMAIN waiters[a] :
        \E c \in Calls :
            /\ InFlight(c) /\ call[c].a = a
            /\ Echo(call[c].fid) = k /\ waiters[a][k] = call[c].fid

\* one call was cancelled and has ended while another is still awaiting:
\* only the second one's token is left
C2_Witness ==
    \E c, d \in Calls :
        /\ call[c] = Ended(1, Raised(Exc("CancelledError", NoCode, NoneV)))
        /\ call[d].pc = "await"
        /\ DOMAIN waiters[1] = {Echo(call[d].fid)}

\* the frame has no non-success status code, at top level or in its payload
Passes(f) ==
    /\ f.kind = "json" /\ f.code \in {NoCode, 0, 200}
    /\ f.data.kind = "dict" /\ f.data.code \in {NoCode, 0, 200}

\* the payload after validation: its "data" key when it has one
Body(f) == IF HasKey(f.data, "data") THEN f.data.data ELSE f.data

\* the frame's token is a key of the table of the task's account
Matches(s, f) == SyncIdOf(f) \in DOMAIN waiters[Acct(s)]
Matched(s, f) == waiters[Acct(s)][SyncIdOf(f)]

\* C3 (as claimed): a response frame for a token whose pending request was
\* already resolved, and whose entry is still in the table, changes nothing
\* and does not end the receive loop
C3_SecondResolveNoop ==
    [][\A s \in Configured, f \in ReplyFrames :
        (/\ Matches(s, f)
         /\ fut[Matched(s, f)].st \in {"result", "exception"}
         /\ Receive(s, f))
            => UNCHANGED vars]_vars

\* C4 (as claimed): a frame whose payload has a session field stores it and
\* resolves no request and dispatches no event, whatever else it carries
C4_AnySessionFrame ==
    [][\A s \in Configured, f \in LoopFrames :
        (HasKey(f.data, "session") /\ Receive(s, f))
            => /\ session_keys'[Acct(s)] = f.data.session
               /\ fut' = fut /\ handlers' = handlers]_vars

\* C4 (amended): a frame without a non-success status code whose payload
\* has a session field stores that value as the account's session key,
\* resolves no pending request, dispatches no event and keeps the loop
\* running, whatever token it carries
C4_SessionFrame ==
    [][\A s \in Configured, f \in LoopFrames :
        (Passes(f) /\ HasKey(Body(f), "session") /\ Receive(s, f))
            => /\ session_keys'[Acct(s)] = Body(f).session
               /\ fut' = fut /\ waiters' = waiters
               /\ handlers' = handlers /\ pc' = pc]_vars

\* a session key is stored, nothing is dispatched, and the request of an
\* awaiting call is still pending
C4_Witness ==
    /\ session_keys[1] \in Sessions /\ handlers = <<>>
    /\ \E c \in Calls : call[c].pc = "await" /\ fut[call[c].fid].st = "pending"

\* C5 (as claimed): a frame whose token matches a pending request resolves
\* that request and no other and produces no event, for every payload
C5_AnyPayload ==
    [][\A s \in Configured, f \in LoopFrames :
        (Matches(s, f) /\ fut[Matched(s, f)].st = "pending" /\ Receive(s, f))
            => /\ fut'[Matched(s, f)].st \in {"result", "exception"}
               /\ \A q \in FutIds \ {Matched(s, f)} : fut'[q] = fut[q]
               /\ handlers' = handlers]_vars

\* C5 (amended): a frame without a non-success top-level code whose token
\* matches a pending request, with a payload that is an object and either
\* carries a non-success code or has no session field, resolves exactly
\* that request (with the mapped error, or with the payload) and produces
\* no event
C5_MatchingToken ==
    [][\A s \in Configured, f \in LoopFrames :
        (/\ f.kind = "json" /\ f.code \in {NoCode, 0, 200} /\ f.data.kind = "dict"
         /\ (f.data.code \notin {NoCode, 0, 200} \/ ~HasKey(Body(f), "session"))
         /\ Matches(s, f) /\ fut[Matched(s, f)].st = "pending"
         /\ Receive(s, f))
            => /\ fut'[Matched(s, f)] =
                    IF f.data.code \in {NoCode, 0, 200}
                    THEN Done("result", Body(f))
                    ELSE Done("exception",
                              Exc(code_exceptions_mapping[f.data.code], f.data.code,
                                  StrOf(f.data)))
               /\ \A q \in FutIds \ {Matched(s, f)} : fut'[q] = fut[q]
               /\ handlers' = handlers /\ pc' = pc
               /\ session_keys' = session_keys]_vars

\* one request is resolved with a payload that has a type tag, another is
\* still pending, and no event was dispatched
C5_Witness ==
    \E c, d \in Calls :
        /\ call[c].pc = "await" /\ fut[call[c].fid] = Done("result", KnownEvent)
        /\ call[d].pc = "await" /\ fut[call[d].fid].st = "pending"
        /\ handlers = <<>>

\* C6 (as claimed): a frame with no matching token and a recognized type
\* tag schedules exactly one event and resolves no request
C6_AnyRecognized ==
    [][\A s \in Configured, f \in LoopFrames :
        (/\ f.kind = "json" /\ ~Matches(s, f)
         /\ HasKey(f.data, "type") /\ f.data.type \in EVENT_CLASSES
         /\ Receive(s, f))
            => /\ Len(handlers') = Len(handlers) + 1
               /\ fut' = fut]_vars

\* C6 (amended): a frame without a non-success status code, with no session
\* field and no matching token, whose type tag is recognized and whose
\* payload fits that variant, schedules exactly one event of that variant
\* for the account (registered online) and resolves no request
C6_RecognizedEvent ==
    [][\A s \in Configured, f \in LoopFrames :
        (/\ Passes(f) /\ ~HasKey(Body(f), "session") /\ ~Matches(s, f)
         /\ HasKey(Body(f), "type") /\ Body(f).type \in EVENT_CLASSES
         /\ Validates(Body(f).type, Body(f))
         /\ Acct(s) \in bots
         /\ Receive(s, f))
            => /\ handlers' = Append(handlers,
                    [a |-> Acct(s), event |-> EventObj(Body(f).type, Body(f).type)])
               /\ fut' = fut /\ waiters' = waiters /\ pc' = pc]_vars

\* an event of a registered variant is scheduled while a request is pending
C6_Witness ==
    /\ handlers = <<[a |-> 1, event |-> EventObj("BotOnlineEvent", "BotOnlineEvent")]>>
    /\ \E c \in Calls : call[c].pc = "await" /\ fut[call[c].fid].st = "pending"

\* C7: whenever a supervisor has entered the receive loop after N failed
\* connection setups, it has made N+1 attempts, slept between every two
\* consecutive attempts, and announced the account online exactly once
C7_Reconnect ==
    \A s \in Configured :
        pc[s] = "loop"
            => /\ attempts[s] >= fails[s] + 1
               /\ sleeps[s] = attempts[s] - 1
               /\ onlines[s] = 1

\* a supervisor is in the receive loop after two failed setups
C7_Witness ==
    \E s \in Configured : pc[s] = "loop" /\ fails[s] = 2 /\ attempts[s] = 3

\* C8 (as claimed): every connection attempt but the first starts from the
\* backoff sleep
C8_BackoffAlways ==
    [][\A s \in Configured :
        (pc'[s] = "connecting" /\ pc[s] \notin {"connecting", "unstarted"})
            => pc[s] = "sleeping"]_vars

\* C9 (as claimed): when the session of an account is torn down, none of the
\* account's pending requests stays unresolved
C9_TeardownFailsPending ==
    [][\A a \in Accounts :
        (a \in bots /\ a \notin bots')
            => \A k \in DOMAIN waiters[a] : fut'[waiters[a][k]].st # "pending"]_vars

\* C10: while shutdown is not requested a started supervisor is connecting,
\* in the receive loop or sleeping, never ended; and whenever it is outside
\* the receive loop (after a failed setup, a closed socket or an exception
\* from the loop) it eventually is in a connection attempt, unless shutdown
\* is requested
C10_NeverTerminates ==
    \A s \in Sups :
        /\ [](~shutdown /\ s \in Configured /\ pc[s] # "unstarted"
                => pc[s] \in {"connecting", "loop", "sleeping"})
        /\ ((s \in Configured /\ pc[s] \notin {"unstarted", "loop"})
                ~> (pc[s] = "connecting" \/ shutdown))

\* one supervisor is connecting again after a failed setup and a sleep, the
\* other is connecting again after it lost an established connection
C10_Witness ==
    /\ ~shutdown
    /\ pc[1] = "connecting" /\ sleeps[1] >= 1
    /\ pc[2] = "connecting" /\ Acct(2) \in made /\ Acct(2) \notin bots

\* C11: whenever a supervisor leaves the receive loop (closed socket,
\* socket error or processing exception), the account is out of the online
\* registry and has no live session handle in the state in which the next
\* connection attempt can start
C11_Disconnect ==
    [][\A s \in Configured :
        (pc[s] = "loop" /\ pc'[s] # "loop")
            => /\ Acct(s) \notin bots'
               /\ wss'[Acct(s)] = NoWs]_vars

\* a supervisor that had a session is connecting again, its account is
\* offline and without a handle, while the other account is still online
C11_Witness ==
    \E s, t \in Configured :
        /\ pc[s] = "connecting" /\ session_keys[Acct(s)] # NoKey
        /\ Acct(s) \notin bots /\ wss[Acct(s)] = NoWs
        /\ pc[t] = "loop" /\ Acct(t) \in bots /\ wss[Acct(t)] = t

\* C12 (as claimed): in raising mode every input whose status code is in the
\* mapping table raises the mapped error kind, and every input whose status
\* code is 200 or 0 returns its data field, or itself when it has none
C12_MappedAndSuccess ==
    \A c \in Calls :
        (Validated(c) /\ call[c].msg.raising)
            => LET data == call[c].msg.data
                   code == IntCodeOf(data)
               IN  /\ code \in MappedCodes
                        => /\ call[c].out.how = "raise"
                           /\ call[c].out.val.cls = code_exceptions_mapping[code]
                   /\ code \in {0, 200}
                        => call[c].out =
                             Returned(IF HasKey(data, "data") THEN data.data ELSE data)

\* C13: every input whose status code is an integer outside the mapping
\* table and not 0 or 200 gives the generic remote error with the input's
\* code and the rendering of the input as content: raised in raising mode,
\* returned as a value otherwise
C13_Unmapped ==
    \A c \in Calls :
        (Validated(c) /\ IntCodeOf(call[c].msg.data) \in UnmappedCodes)
            => LET data == call[c].msg.data
                   exc == Exc("RemoteException", IntCodeOf(data), StrOf(data))
               IN  call[c].out = IF call[c].msg.raising THEN Raised(exc) ELSE Returned(exc)

\* raising mode was applied to the bare number 99 and to an envelope with
\* code 7
C13_Witness ==
    \E c, d \in Calls :
        /\ Validated(c) /\ call[c].msg = Args(Num(99), TRUE)
        /\ call[c].out.how = "raise"
        /\ Validated(d) /\ call[d].msg = Args(Envelope(7), TRUE)
        /\ call[d].out.how = "raise"

\* C14 (as claimed): non-raising mode returns for every input, and what it
\* returns is what raising mode returns, or the error raising mode raises,
\* for the same input
C14_NonRaisingTotal ==
    \A c \in Calls :
        (Validated(c) /\ ~call[c].msg.raising)
            => /\ call[c].out.how = "return"
               /\ \A d \in Calls :
                    (/\ Validated(d) /\ call[d].msg.raising
                     /\ call[d].msg.data = call[c].msg.data)
                        => call[c].out.val = call[d].out.val

\* C15 (as claimed): a bare number is its own status code: 200 and 0 return
\* the number, any other number gives the mapped or the generic error
C15_BareNumber ==
    \A c \in Calls :
        (Validated(c) /\ call[c].msg.data.kind = "num")
            => LET data == call[c].msg.data
                   exc == Exc(IF data.n \in MappedCodes
                              THEN code_exceptions_mapping[data.n]
                              ELSE "RemoteException",
                              data.n, StrOf(data))
               IN  call[c].out =
                     IF data.n \in {0, 200} THEN Returned(data)
                     ELSE IF call[c].msg.raising THEN Raised(exc) ELSE Returned(exc)

\* {"msgId": 456}: the result fields of OkResult without the status code
ResultFields == Dict(NoCode, "", "", 0, 456, NoneV)

\* the receive loop of the call's account processes the success frame that
\* carries the call's token while the call is awaiting
Answered(c, s) ==
    /\ call[c].pc = "await" /\ fut[call[c].fid].st = "pending"
    /\ Acct(s) = call[c].a
    /\ Receive(s, Frame(NoCode, Echo(call[c].fid), OkResult))

\* the awaiting call ends on a Future that holds a result (it returns the
\* result, unless its task was cancelled in the meantime)
Returns(c) ==
    /\ call[c].pc = "await" /\ fut[call[c].fid].st = "result"
    /\ call'[c].pc = "done"

\* C16 (as claimed): the call answered with {code:0, msgId:456} returns
\* {msgId:456} and its token is out of the table afterward
C16_ReturnsFieldsOnly ==
    [][\A c \in Calls :
        /\ \A s \in Configured :
             Answered(c, s) => fut'[call[c].fid] = Done("result", ResultFields)
        /\ Returns(c)
             => /\ call'[c].out.how = "return" => call'[c].out.val = ResultFields
                /\ Echo(call[c].fid) \notin DOMAIN waiters'[call[c].a]]_vars

\* C16 (amended): the call answered with {code:0, msgId:456} returns the
\* whole payload, status code included, and its token is out of the table
\* afterward
C16_RoundTrip ==
    [][\A c \in Calls :
        /\ \A s \in Configured :
             Answered(c, s) => fut'[call[c].fid] = Done("result", OkResult)
        /\ Returns(c)
             => /\ call'[c].out.how = "return" => call'[c].out.val = OkResult
                /\ Echo(call[c].fid) \notin DOMAIN waiters'[call[c].a]]_vars

\* a call has returned the payload and the table of its account is empty
C16_Witness ==
    \E c \in Calls :
        /\ call[c].pc = "done" /\ call[c].out = Returned(OkResult)
        /\ DOMAIN waiters[call[c].a] = {}

\* the error _loop builds for a payload with a non-success code
ErrorOf(data) ==
    Exc(IF data.code \in MappedCodes THEN code_exceptions_mapping[data.code]
        ELSE "RemoteException",
        data.code, StrOf(data))

\* C17 (as claimed): a frame whose payload has a non-success code sets the
\* mapped error on the Future registered for its token, and is dropped when
\* the table has no entry for the token; in both cases no event is
\* dispatched and the receive loop goes on; the awaiting call then raises
C17_ErrorFrame ==
    [][/\ \A s \in Configured, f \in LoopFrames :
            (/\ f.kind = "json" /\ f.code = NoCode /\ f.data.kind = "dict"
             /\ f.data.code \notin {NoCode, 0, 200}
             /\ Receive(s, f))
                => /\ handlers' = handlers
                   /\ pc'[s] = "loop"
                   /\ IF Matches(s, f)
                      THEN fut'[Matched(s, f)] = Done("exception", ErrorOf(f.data))
                      ELSE UNCHANGED vars
       /\ \A c \in Calls :
            (/\ call[c].pc = "await" /\ fut[call[c].fid].st = "exception"
             /\ call'[c].pc = "done")
                => call'[c].out.how = "raise"]_vars

\* C18: an event frame (no non-success code, no session field, no matching
\* token) whose type tag is not in the registry schedules exactly one event
\* of the base class that records the tag, and the receive loop goes on
C18_UnknownEvent ==
    [][\A s \in Configured, f \in LoopFrames :
        (/\ Passes(f) /\ ~HasKey(Body(f), "session") /\ ~Matches(s, f)
         /\ HasKey(Body(f), "type") /\ Body(f).type \notin EVENT_CLASSES
         /\ Receive(s, f))
            => /\ handlers' = Append(handlers,
                    [a |-> Acct(s), event |-> EventObj("Event", Body(f).type)])
               /\ pc'[s] = "loop" /\ Acct(s) \in bots'
               /\ fut' = fut /\ session_keys' = session_keys]_vars

\* a generic event that records the unregistered tag is scheduled and the
\* supervisor is still in the receive loop
C18_Witness ==
    /\ pc[1] = "loop"
    /\ \E i \in 1..Len(handlers) :
         handlers[i] = [a |-> 1, event |-> EventObj("Event", "SomeFutureEvent")]

\* the step registered a pending entry and left a WS frame to send, and
\* issued no HTTP request
ViaWs(c, a) ==
    /\ call'[c].pc = "send" /\ call'[c].msg.kind = "ws"
    /\ call'[c].msg.syncId \notin DOMAIN waiters[a]
    /\ waiters'[a] = With(waiters[a], call'[c].msg.syncId, call'[c].fid)

\* the step issued an HTTP request, and no pending entry and no WS frame
ViaHttp(c) ==
    /\ call'[c].pc = "http" /\ call'[c].msg.kind = "http"
    /\ waiters' = waiters /\ fut' = fut

\* the step ended the call with a local error and issued nothing
LocalError(c, cls, text) ==
    /\ call'[c].pc = "done"
    /\ call'[c].out = Raised(Exc(cls, NoCode, Text(text)))
    /\ waiters' = waiters /\ fut' = fut

\* the call went the WS path: it was sent over the socket, or rejected by
\* a precondition of the WS path
WsPath(c, a, session) ==
    \/ ViaWs(c, a)
    \/ wss[a] = NoWs /\ LocalError(c, "RuntimeError", "connection is not established")
    \/ /\ session /\ session_keys[a] = NoKey
       /\ LocalError(c, "RuntimeError", "No session key available.")

\* the call went the HTTP path: it was issued as an HTTP request, or
\* rejected by a precondition of the HTTP path
HttpPath(c, a, method, params, session) ==
    \/ ViaHttp(c)
    \/ /\ session /\ session_keys[a] = NoKey
       /\ LocalError(c, "RuntimeError", "No session key available.")
    \/ /\ method = "multipart" /\ params = NoParams
       /\ LocalError(c, "TypeError", "multipart requires params")

\* C19 (as claimed): on a WS-only account a call that is not multipart goes
\* the WS path and a multipart call goes the HTTP path; on any other
\* account every call goes the HTTP path
C19_Transport ==
    [][\A c \in Calls, a \in Accounts, method \in Methods, params \in Params,
          session \in BOOLEAN :
        CallStart(c, a, "file_list", method, params, session)
            => IF InfoOf(a).only_ws /\ method # "multipart"
               THEN WsPath(c, a, session)
               ELSE HttpPath(c, a, method, params, session)]_vars

\* C20: a call on a WS-only account made while wss has no socket for the
\* account, or made with session = TRUE while no session key is stored,
\* raises a RuntimeError (a local error, not a remote one), registers no
\* pending entry, leaves no frame to send and changes nothing of the
\* connection state
C20_LocalError ==
    [][\A c \in Calls, a \in Accounts, method \in Methods, params \in Params,
          session \in BOOLEAN :
        (/\ InfoOf(a).only_ws
         /\ wss[a] = NoWs \/ (session /\ session_keys[a] = NoKey)
         /\ CallStart(c, a, "file_list", method, params, session))
            => /\ call'[c].pc = "done" /\ call'[c].msg = NoneV
               /\ call'[c].out.how = "raise"
               /\ call'[c].out.val.cls = "RuntimeError"
               /\ call'[c].out.val.content =
                    Text(IF wss[a] = NoWs THEN "connection is not established"
                         ELSE "No session key available.")
               /\ waiters' = waiters /\ fut' = fut
               /\ wss' = wss /\ bots' = bots /\ session_keys' = session_keys
               /\ pc' = pc]_vars

\* a call was rejected for the missing session key while the socket is
\* stored and the supervisor is in the receive loop
C20_Witness ==
    /\ call[1].pc = "done" /\ call[1].a = 1
    /\ call[1].out = Raised(Exc("RuntimeError", NoCode, Text("No session key available.")))
    /\ wss[1] = 1 /\ pc[1] = "loop" /\ session_keys[1] = NoKey
    /\ waiters[1] = EmptyTable

\* C21: the outcome of an HTTP call is, in this order: a remote error with
\* status 500 when the request raised; the malformed-response error with
\* the response's status, headers and content when the content is empty or
\* is not JSON; otherwise what validate_response in raising mode gives for
\* the decoded body (the inner data of a success envelope, the mapped error
\* of an error envelope)
C21_HttpOutcome ==
    [][\A c \in Calls, resp \in HttpResponses :
        HttpDone(c, resp)
            => /\ call'[c].pc = "done"
               /\ resp = TransportError
                    => /\ call'[c].out.how = "raise"
                       /\ call'[c].out.val.cls = "RemoteException"
                       /\ call'[c].out.val.code = 500
               /\ (resp # TransportError /\ resp.content \in {NoBytes, NotJson})
                    => /\ call'[c].out.how = "raise"
                       /\ call'[c].out.val.cls = "ActionFailed"
                       /\ call'[c].out.val.code = resp.status
                       /\ call'[c].out.val.content.headers = resp.headers
                       /\ call'[c].out.val.content.content = resp.content
               /\ (resp # TransportError /\ resp.content \in HttpBodies)
                    => /\ call'[c].out = validate_response(resp.content, TRUE)
                       /\ resp.content = Wrapped
                            => call'[c].out = Returned(Wrapped.data)
                       /\ resp.content = ErrInvalidSession
                            => call'[c].out =
                                 Raised(Exc("InvalidSession", 3, StrOf(ErrInvalidSession)))]_vars

\* an HTTP call ended with the malformed-response error that holds the
\* status 500 and the content that is not JSON
C21_Witness ==
    \E c \in Calls :
        /\ call[c].pc = "done" /\ call[c].out.how = "raise"
        /\ call[c].out.val = Exc("ActionFailed", 500, Raw("Invalid response", "h", NotJson))

\* C22: when the cancellation of shutdown reaches a supervisor, wherever it
\* is suspended (connecting, in the receive loop, sleeping), the task ends
\* and its account is out of the online registry and has no live session
\* handle
C22_ShutdownTeardown ==
    [][\A s \in Configured :
        Cancelled(s)
            => /\ pc'[s] = "cancelled"
               /\ Acct(s) \notin bots'
               /\ wss'[Acct(s)] = NoWs]_vars

\* the supervisor of an account that had announced a session has ended,
\* the account is offline, and the other supervisor is still in its loop
C22_Witness ==
    /\ shutdown /\ pc[1] = "cancelled" /\ session_keys[1] # NoKey
    /\ 1 \notin bots /\ wss[1] = NoWs
    /\ pc[2] = "loop" /\ 2 \in bots

\* C23: a stored session credential implies a live session handle of the
\* same account (the credential is cleared on every disconnect)
C23_CredentialOnlyWhileActive ==
    \A a \in Accounts : session_keys[a] # NoKey => wss[a] # NoWs

\* C24 (as claimed): a frame with a non-success top-level code does not end
\* the receive loop: the task stays in the loop on the same connection, the
\* account stays online, and no event is dispatched
C24_TopLevelCode ==
    [][\A s \in Configured, f \in LoopFrames :
        (/\ f.kind = "json" /\ f.code \notin {NoCode, 0, 200}
         /\ Receive(s, f))
            => /\ pc'[s] = "loop"
               /\ Acct(s) \in bots' /\ wss'[Acct(s)] = wss[Acct(s)]
               /\ handlers' = handlers]_vars

\* C25 (as claimed): an event frame whose type tag is recognized and whose
\* payload does not fit that variant does not end the receive loop: the
\* task stays in the loop on the same connection and the account stays
\* online
C25_DecodeError ==
    [][\A s \in Configured, f \in LoopFrames :
        (/\ Passes(f) /\ ~HasKey(Body(f), "session") /\ ~Matches(s, f)
         /\ HasKey(Body(f), "type") /\ Body(f).type \in EVENT_CLASSES
         /\ ~Validates(Body(f).type, Body(f))
         /\ Receive(s, f))
            => /\ pc'[s] = "loop"
               /\ Acct(s) \in bots' /\ wss'[Acct(s)] = wss[Acct(s)]]_vars

\* the call of an account was abandoned: it ended with the cancellation
Abandoned(a) ==
    \E c \in Calls :
        /\ call[c].pc = "done" /\ call[c].a = a
        /\ call[c].out = Raised(Exc("CancelledError", NoCode, NoneV))

\* C26 (as claimed): a frame that carries a call token which is no longer
\* in the table, after a call of the account was cancelled, resolves no
\* request, dispatches no event whatever its payload, and does not end the
\* receive loop
C26_LateDropped ==
    [][\A s \in Configured, f \in LateFrames :
        (/\ Abandoned(Acct(s)) /\ ~Matches(s, f)
         /\ Receive(s, f))
            => /\ fut' = fut /\ waiters' = waiters
               /\ handlers' = handlers
               /\ pc'[s] = "loop"]_vars

\* the call ends this step with a payload or a remote error
Delivers(c) ==
    /\ InFlight(c) /\ call'[c].pc = "done"
    /\ \/ call'[c].out.how = "return"
       \/ call'[c].out.how = "raise" /\ call'[c].out.val.code # NoCode

\* what a frame resolves a pending request to
Resolution(f) ==
    LET v == validate_response(f.data, FALSE).val
    IN  Done(IF IsExc(v) THEN "exception" ELSE "result", v)

\* C27: a WS call ends with a payload or a remote error only when the
\* Future registered under its token is already resolved, and with what
\* that Future holds; a Future is resolved only by the receive loop
\* processing a frame that carries the token it is registered under, and to
\* the payload of that frame
C27_ResolvedBeforeReturn ==
    [][/\ \A c \in Calls :
            Delivers(c)
                => /\ fut[call[c].fid].st \in {"result", "exception"}
                   /\ call'[c].out = Outcome(fut[call[c].fid])
       /\ \A p \in FutIds :
            fut'[p].st \in {"result", "exception"} /\ fut'[p] # fut[p]
                => \E s \in Configured, f \in ReplyFrames :
                    /\ Receive(s, f)
                    /\ Matches(s, f) /\ Matched(s, f) = p
                    /\ fut[p].st = "pending"
                    /\ fut'[p] = Resolution(f)]_vars

\* both calls were answered: one has returned the payload of its frame, the
\* other has raised the remote error of its own
C27_Witness ==
    \E c, d \in Calls :
        /\ call[c].pc = "done" /\ call[c].out = Returned(OkResult)
        /\ call[d].pc = "done" /\ call[d].out.how = "raise"
        /\ call[d].out.val.code = 3

\* C28: while handlers of earlier events have not finished, the task of a
\* connected account is at ws.receive() and every frame can be processed:
\* answers to tokens, session announcements, error payloads, and further
\* events as long as the number of unfinished handlers is below MaxHandlers
C28_LoopNotBlocked ==
    \A s \in Configured :
        handlers # <<>> /\ wss[Acct(s)] = s
            => /\ pc[s] = "loop"
               /\ \A f \in LoopFrames :
                    Len(handlers) < MaxHandlers \/ ~HasKey(Body(f), "type")
                        => ENABLED Receive(s, f)

\* the handler of an event has not finished and a request of the same
\* account stands resolved by the loop, its call not yet resumed
C28_Witness ==
    \E c \in Calls :
        /\ handlers # <<>> /\ handlers[1].a = call[c].a
        /\ call[c].pc = "await" /\ fut[call[c].fid].st = "exception"

\* the frame a WS call has to write, given how its method name is sent
Outbound(c, a, sub, params, session) ==
    /\ call'[c].msg = [kind |-> "ws", subCommand |-> sub,
                       syncId |-> Echo(call'[c].fid), command |-> "file_list",
                       content |-> IF params = NoParams THEN "{}" ELSE params,
                       sessionKey |-> IF session THEN session_keys[a] ELSE NoKey]
    /\ session => session_keys[a] # NoKey
    /\ waiters'[a][Echo(call'[c].fid)] = call'[c].fid

\* C29 (as claimed): the frame of a WS call carries fetch for method get,
\* update for method post, and the token, the action name, the params, and
\* the session credential exactly when the call requires the session
C29_GetAsFetch ==
    [][\A a \in Accounts, method \in Methods, params \in Params, session \in BOOLEAN :
        CallStart(1, a, "file_list", method, params, session) /\ call'[1].pc = "send"
            => Outbound(1, a, CASE method = "get" -> "fetch"
                                [] method = "post" -> "update"
                                [] OTHER -> method,
                        params, session)]_vars

\* C29 (amended): the frame of a WS call carries update for method post and
\* the method name itself for any other method, get included, and the
\* token, the action name, the params, and the session credential exactly
\* when the call requires the session
C29_PostAsUpdate ==
    [][\A a \in Accounts, method \in Methods, params \in Params, session \in BOOLEAN :
        CallStart(1, a, "file_list", method, params, session) /\ call'[1].pc = "send"
            => Outbound(1, a, IF method = "post" THEN "update" ELSE method,
                        params, session)]_vars

\* a call with method get and the session required has built its frame
C29_Witness ==
    /\ call[1].pc = "send"
    /\ call[1].msg.subCommand = "get" /\ call[1].msg.sessionKey = "s1"

\* the entry of the table of account a under key k differs between the two
\* states of the step
EntryChanged(a, k) ==
    \/ (k \in DOMAIN waiters[a]) # (k \in DOMAIN waiters'[a])
    \/ /\ k \in DOMAIN waiters[a] /\ k \in DOMAIN waiters'[a]
       /\ waiters[a][k] # waiters'[a][k]

\* C30: a step of a call (its start, the end of its send, its resumption,
\* the end of its HTTP request, its cancellation, its failure) leaves the
\* socket table, the session credentials and the online registry as they
\* are, and changes no entry of a pending-request table but the one under
\* the call's own token
C30_RouterFrame ==
    [][\A c \in Calls :
        call'[c] # call[c]
            => /\ wss' = wss /\ session_keys' = session_keys /\ bots' = bots
               /\ LET own == IF call[c].pc = "idle" THEN call'[c] ELSE call[c]
                  IN  \A a \in Accounts, k \in Tokens \cup {"#"} :
                        EntryChanged(a, k)
                            => /\ a = own.a /\ own.fid # NoFut
                               /\ k = Echo(own.fid)]_vars

\* a WS call that required the session has returned its payload: the
\* socket and the credential are still there and the table is empty again
C30_Witness ==
    /\ call[1].pc = "done" /\ call[1].a = 1 /\ call[1].out = Returned(OkResult)
    /\ wss[1] # NoWs /\ session_keys[1] = "s1"
    /\ waiters[1] = EmptyTable

\* the step changes something that belongs to account a: its online status,
\* its socket, its credential, its table, a Future registered in its table,
\* or where its supervisor stands
Touched(a) ==
    \/ (a \in bots) # (a \in bots')
    \/ wss'[a] # wss[a]
    \/ session_keys'[a] # session_keys[a]
    \/ waiters'[a] # waiters[a]
    \/ \E k \in DOMAIN waiters[a] : fut'[waiters[a][k]] # fut[waiters[a][k]]
    \/ \E s \in Configured : Acct(s) = a /\ pc'[s] # pc[s]

\* C31: a step of the supervisor or of the receive loop of one account (a
\* refused connection, the end of a backoff, an established connection, a
\* closed socket, a frame) and a step of a call on one account change
\* nothing that belongs to another account
C31_Partitioned ==
    [][/\ \A s \in Configured :
            (\/ ConnectOk(s) \/ ConnectFail(s) \/ Wake(s) \/ Closed(s)
             \/ \E f \in PartFrames : Receive(s, f))
                => \A b \in Accounts \ {Acct(s)} : ~Touched(b)
       /\ call'[1] # call[1]
            => \A b \in Accounts \ {IF call[1].pc = "idle" THEN call'[1].a ELSE call[1].a} :
                    ~Touched(b)]_vars

\* account 1 is in its backoff after a refused connection while account 2
\* is online with its credential and a call awaiting on it
C31_Witness ==
    /\ pc[1] = "sleeping" /\ 1 \notin bots /\ session_keys[1] = NoKey
    /\ pc[2] = "loop" /\ 2 \in bots /\ session_keys[2] = "s1"
    /\ call[1].pc = "await" /\ call[1].a = 2

\* C32: a connection established for an account that is already registered
\* online emits no online transition and builds no Bot: the registry is as
\* it was, the socket of the new connection replaces the stored one, the
\* credential and the tables are untouched, and the account has its
\* pending-request table when the new receive loop starts
C32_Reuse ==
    [][\A s \in Configured :
        Acct(s) \in bots /\ ConnectOk(s)
            => /\ bots' = bots /\ made' = made /\ onlines' = onlines
               /\ wss'[Acct(s)] = s
               /\ session_keys' = session_keys /\ waiters' = waiters
               /\ Acct(s) \in tables' /\ pc'[s] = "loop"]_vars

\* the second supervisor of the account is in its receive loop on its own
\* socket without having emitted an online transition, next to the first
C32_Witness ==
    /\ pc[1] = "loop" /\ pc[2] = "loop" /\ Acct(1) = Acct(2)
    /\ onlines[1] = 1 /\ onlines[2] = 0
    /\ wss[1] = 2 /\ 1 \in bots

C34_LiveCredential ==
    [][\A a \in Accounts, method \in Methods, params \in Params :
        CallStart(1, a, "file_list", method, params, TRUE) /\ wss[a] = NoWs
            => /\ call'[1].pc = "done" /\ call'[1].msg = NoneV
               /\ call'[1].out.how = "raise"
               /\ InfoOf(a).only_ws
                    \/ call'[1].out.val.content = Text("No session key available.")]_vars

\* C35: with one supervisor per account, after every step an account is in
\* the online registry exactly when a socket is stored for it; every entry
\* into the receive loop is an online transition of an account that was
\* offline, and every exit from it an offline transition of an account that
\* was online, so the two kinds alternate, starting with online
C35_OnlineIffHandle ==
    [][/\ \A a \in Accounts : (a \in bots') <=> (wss'[a] # NoWs)
       /\ \A s \in Configured :
            /\ (pc[s] # "loop" /\ pc'[s] = "loop")
                    => /\ Acct(s) \notin bots /\ Acct(s) \in bots'
                       /\ onlines[s] = 0 /\ onlines'[s] = 1
            /\ (pc[s] = "loop" /\ pc'[s] # "loop")
                    => /\ Acct(s) \in bots /\ Acct(s) \notin bots'
                       /\ onlines'[s] = 0
            /\ (pc[s] = "loop") = (pc'[s] = "loop")
                    => (Acct(s) \in bots) = (Acct(s) \in bots')]_vars

\* account 1 is online on its socket; account 2 has been online, is offline
\* again and waits in its backoff after a refused reconnection
C35_Witness ==
    /\ pc[1] = "loop" /\ 1 \in bots /\ wss[1] = 1 /\ onlines[1] = 1
    /\ pc[2] = "sleeping" /\ 2 \in made /\ 2 \notin bots /\ wss[2] = NoWs

\* C36: a step that schedules an event schedules it for an account that is
\* in the online registry before and after the step, with two supervisors
\* of the same account as well
C36_DispatchOnline ==
    [][Len(handlers') > Len(handlers)
        => /\ handlers'[Len(handlers')].a \in bots
           /\ handlers'[Len(handlers')].a \in bots'
           /\ \E s \in Configured :
                /\ pc[s] = "loop" /\ Acct(s) = handlers'[Len(handlers')].a
                /\ Receive(s, Frame(NoCode, NoSync, KnownEvent))]_vars

\* an event was scheduled while the account was online; since then one
\* supervisor has unregistered the account and the other, still on its
\* socket, has failed on a frame and is in its backoff
C36_Witness ==
    /\ Acct(1) = Acct(2)
    /\ handlers # <<>> /\ handlers[1].a \notin bots
    /\ \E s, t \in Configured : pc[s] = "connecting" /\ pc[t] = "sleeping"

\* C37 (as claimed): a multipart call on a WS-only account goes the HTTP
\* path whatever the state of the socket: it is issued as an HTTP request
\* that carries the credential exactly when the caller required the
\* session, or is rejected by a precondition of the HTTP path under the
\* caller's own flag
C37_MultipartFallback ==
    [][\A a \in Accounts, params \in Params, session \in BOOLEAN :
        (/\ InfoOf(a).only_ws
         /\ CallStart(1, a, "file_list", "multipart", params, session))
            => /\ HttpPath(1, a, "multipart", params, session)
               /\ call'[1].pc = "http"
                    => call'[1].msg.sessionKey = IF session THEN session_keys[a]
                                                 ELSE NoKey]_vars

\* C38: "#" is never a key of a pending-request table, and a frame without
\* a syncId field resolves no pending request and changes no table
C38_Unsolicited ==
    [][/\ \A a \in Accounts : "#" \notin DOMAIN waiters'[a]
       /\ \A s \in Configured, f \in LoopFrames :
            (f.kind = "json" /\ f.syncId = NoSync /\ Receive(s, f))
                => fut' = fut /\ waiters' = waiters]_vars

\* a request is still pending under its token while a session was announced
\* and an event scheduled by frames without a syncId
C38_Witness ==
    \E c \in Calls :
        /\ call[c].pc = "await" /\ fut[call[c].fid].st = "pending"
        /\ Echo(call[c].fid) = "1"
        /\ session_keys[call[c].a] # NoKey /\ handlers # <<>>

\* C39: a call on an account that is not WS-only made with session = TRUE
\* while no credential is stored raises RuntimeError, and a multipart call
\* with params = None raises TypeError (the missing credential first);
\* either way no HTTP request is issued and the tables, the Futures, the
\* registry, the sockets, the credentials and the supervisors are as before
C39_HttpLocalError ==
    [][\A a \in Accounts, method \in Methods, params \in Params, session \in BOOLEAN :
        (/\ ~InfoOf(a).only_ws
         /\ (session /\ session_keys[a] = NoKey)
                \/ (method = "multipart" /\ params = NoParams)
         /\ CallStart(1, a, "file_list", method, params, session))
            => /\ call'[1].pc = "done" /\ call'[1].msg = NoneV
               /\ call'[1].out =
                    IF session /\ session_keys[a] = NoKey
                    THEN Raised(Exc("RuntimeError", NoCode, Text("No session key available.")))
                    ELSE Raised(Exc("TypeError", NoCode, Text("multipart requires params")))
               /\ waiters' = waiters /\ fut' = fut
               /\ wss' = wss /\ bots' = bots /\ session_keys' = session_keys
               /\ pc' = pc]_vars

\* a multipart call without params was rejected on the account that is not
\* WS-only, whose credential is stored
C39_Witness ==
    /\ call[1].pc = "done" /\ call[1].a = 2 /\ ~InfoOf(2).only_ws
    /\ call[1].out = Raised(Exc("TypeError", NoCode, Text("multipart requires params")))
    /\ session_keys[2] # NoKey

====
